---- MODULE Spec2Model ----
(***************************************************************************)
(* A model of HARK/ConsumptionSaving/ConsIndShockModel_AgentSolve.py:      *)
(* the stage-solution records (ConsumerSolution, its bilt / pars / folw    *)
(* namespaces and its stge_kind dictionaries), the perfect-foresight solver*)
(* (ConsPerfForesightSolverEOP) and the income-shock solver                *)
(* (ConsIndShockSetupEOP / ConsIndShockSolverBasicEOP).                    *)
(*                                                                         *)
(* Python objects live in three stores (solns, bilts, dicts) and are       *)
(* referred to by their index, so that aliasing and deepcopy are visible.  *)
(* Floating-point numbers are modelled as exact extended rationals         *)
(* [n, d]: d > 0 is the fraction n/d in lowest terms, 1/0 is +inf,         *)
(* -1/0 is -inf and 0/0 is nan.                                            *)
(***************************************************************************)
EXTENDS Integers, Sequences, FiniteSets, TLC

(***************************************************************************)
(* Extended rational arithmetic (numpy float semantics for inf and nan).   *)
(***************************************************************************)
Abs(i) == IF i < 0 THEN -i ELSE i

RECURSIVE GCD(_, _)
GCD(a, b) == IF b = 0 THEN a ELSE GCD(b, a % b)

Sgn(i) == IF i > 0 THEN 1 ELSE IF i < 0 THEN -1 ELSE 0

Q(n, d) ==
    IF d = 0 THEN [n |-> Sgn(n), d |-> 0]
    ELSE LET g == GCD(Abs(n), Abs(d))
             s == IF d < 0 THEN -1 ELSE 1
         IN [n |-> s * (n \div g), d |-> s * (d \div g)]

QI(i) == [n |-> i, d |-> 1]
Zero == QI(0)
One == QI(1)
PosInf == [n |-> 1, d |-> 0]
NegInf == [n |-> -1, d |-> 0]
NaN == [n |-> 0, d |-> 0]
\* The value of an attribute that does not exist on its namespace.
Absent == [n |-> 0, d |-> -1]

IsNaN(a) == a.d = 0 /\ a.n = 0
IsInf(a) == a.d = 0 /\ a.n # 0
IsFinite(a) == a.d > 0

QNeg(a) == [n |-> -a.n, d |-> a.d]

QAdd(a, b) ==
    IF IsNaN(a) \/ IsNaN(b) THEN NaN
    ELSE IF IsInf(a) /\ IsInf(b) THEN (IF a.n = b.n THEN a ELSE NaN)
    ELSE IF IsInf(a) THEN a
    ELSE IF IsInf(b) THEN b
    ELSE Q(a.n * (b.d \div GCD(a.d, b.d)) + b.n * (a.d \div GCD(a.d, b.d)),
           a.d * (b.d \div GCD(a.d, b.d)))

QSub(a, b) == QAdd(a, QNeg(b))

\* Common factors are cancelled before the products are taken.
QMul(a, b) ==
    IF IsNaN(a) \/ IsNaN(b) THEN NaN
    ELSE IF IsInf(a) \/ IsInf(b)
         THEN (IF a.n = 0 \/ b.n = 0 THEN NaN
               ELSE [n |-> Sgn(a.n) * Sgn(b.n), d |-> 0])
    ELSE Q((a.n \div GCD(Abs(a.n), b.d)) * (b.n \div GCD(Abs(b.n), a.d)),
           (a.d \div GCD(Abs(b.n), a.d)) * (b.d \div GCD(Abs(a.n), b.d)))

\* 1/0 is +inf (the sign of a float zero is not modelled), 1/inf is 0.
QInv(a) ==
    IF IsNaN(a) THEN NaN
    ELSE IF IsInf(a) THEN Zero
    ELSE IF a.n = 0 THEN PosInf
    ELSE Q(a.d, a.n)

\* 0/0 and inf/inf are nan, x/0 is a signed infinity.
QDiv(a, b) ==
    IF IsFinite(a) /\ IsFinite(b) /\ b.n = 0
    THEN (IF a.n = 0 THEN NaN ELSE [n |-> Sgn(a.n), d |-> 0])
    ELSE IF IsInf(a) /\ IsInf(b) THEN NaN
    ELSE QMul(a, QInv(b))

\* a/b < c/d for b, d > 0, by comparing the integer parts and then the
\* reciprocals of the fractional parts (no product is formed).
RECURSIVE FracLt(_, _, _, _)
FracLt(a, b, c, d) ==
    IF a \div b # c \div d THEN a \div b < c \div d
    ELSE IF c % d = 0 THEN FALSE
    ELSE IF a % b = 0 THEN TRUE
    ELSE FracLt(d, c % d, b, a % b)

\* a < b; every comparison with nan is false.
QLt(a, b) ==
    IF IsNaN(a) \/ IsNaN(b) THEN FALSE
    ELSE IF IsInf(a) THEN a.n < 0 /\ b # a
    ELSE IF IsInf(b) THEN b.n > 0
    ELSE FracLt(a.n, a.d, b.n, b.d)

QLe(a, b) == ~IsNaN(a) /\ ~IsNaN(b) /\ ~QLt(b, a)

\* Python's max(a, b): b only when b > a.
QMax(a, b) == IF QLt(a, b) THEN b ELSE a

RECURSIVE IPow(_, _)
IPow(b, k) == IF k = 0 THEN 1 ELSE b * IPow(b, k - 1)

\* a ** k for an integer k >= 0.
RECURSIVE QPowNat(_, _)
QPowNat(a, k) == IF k = 0 THEN One ELSE QMul(a, QPowNat(a, k - 1))

\* a ** k for any integer k (0 ** negative is inf, as numpy gives).
QPow(a, k) == IF k >= 0 THEN QPowNat(a, k) ELSE QInv(QPowNat(a, -k))

\* a ** (1/k): the exact k-th root when a is a perfect k-th power of a
\* rational, otherwise the root rounded down to a multiple of
\* 1/(RootDen * denominator of a).
RootDen == 8

\* The largest r in lo..hi with r ** k <= x (lo ** k <= x is assumed).
RECURSIVE IRootIn(_, _, _, _)
IRootIn(lo, hi, x, k) ==
    IF lo >= hi THEN lo
    ELSE IF IPow((lo + hi + 1) \div 2, k) <= x
         THEN IRootIn((lo + hi + 1) \div 2, hi, x, k)
         ELSE IRootIn(lo, ((lo + hi + 1) \div 2) - 1, x, k)

\* The integer part of the k-th root of x, for k >= 2 and x below 2^31:
\* the root is at most 46340.
IRoot(x, k) ==
    IF x <= 0 THEN 0 ELSE IRootIn(0, IF x < 46340 THEN x ELSE 46340, x, k)

IsPerfect(x, k) == IPow(IRoot(x, k), k) = x

QRoot(a, k) ==
    IF IsNaN(a) \/ QLt(a, Zero) THEN NaN
    ELSE IF IsInf(a) THEN PosInf
    ELSE IF IsPerfect(a.n, k) /\ IsPerfect(a.d, k)
         THEN Q(IRoot(a.n, k), IRoot(a.d, k))
    ELSE Q(IRoot(a.n * IPow(a.d, k - 1) * IPow(RootDen, k), k), a.d * RootDen)

(***************************************************************************)
(* Sequences of numbers (numpy arrays).                                    *)
(***************************************************************************)
RECURSIVE Dot(_, _)
Dot(p, v) == IF p = <<>> THEN Zero
             ELSE QAdd(QMul(Head(p), Head(v)), Dot(Tail(p), Tail(v)))

RECURSIVE SeqMin(_)
SeqMin(v) == IF Len(v) = 1 THEN v[1]
             ELSE LET m == SeqMin(Tail(v)) IN IF QLt(m, v[1]) THEN m ELSE v[1]

\* x_list[:-1][1:]
Interior(v) == IF Len(v) <= 2 THEN <<>> ELSE SubSeq(v, 2, Len(v) - 1)

StrictlyIncreasing(v) == \A i \in 1..(Len(v) - 1) : QLt(v[i], v[i + 1])

(***************************************************************************)
(* Interpolated functions (HARK.interpolation) and CRRA utility            *)
(* (def_utility, def_value_funcs), as the solvers use them.                *)
(***************************************************************************)
\* A function object: "lin" is LinearInterp(x, y); "env" is LowerEnvelope of
\* the interpolant through (x, y) and LinearInterp(cx, cy); "null" is
\* NullFunc(); "absent" stands for an attribute that does not exist.  A cubic
\* interpolant has its slopes in dydx and <<intercept_limit, slope_limit>>
\* in limit; for every other function both are empty.
NullFunc ==
    [kind |-> "null", x |-> <<>>, y |-> <<>>, cx |-> <<>>, cy |-> <<>>,
     dydx |-> <<>>, limit |-> <<>>]

NoFunc == [NullFunc EXCEPT !.kind = "absent"]

LinearInterp(x, y) == [NullFunc EXCEPT !.kind = "lin", !.x = x, !.y = y]

\* CubicInterp(x_list, y_list, dydx_list, intercept_limit, slope_limit).
\* Calling it is not modelled: no stage is solved against a cubic function.
CubicInterp(x, y, dydx, intercept_limit, slope_limit) ==
    [NullFunc EXCEPT !.kind = "cubic", !.x = x, !.y = y, !.dydx = dydx,
                     !.limit = <<intercept_limit, slope_limit>>]

LowerEnvelope(f, g) == [f EXCEPT !.kind = "env", !.cx = g.x, !.cy = g.y]

\* numpy's ordering for searchsorted: nan sorts after every number.
NpLt(a, b) == QLt(a, b) \/ (IsNaN(b) /\ ~IsNaN(a))

\* np.searchsorted(arr, key) (side 'left'): the binary search numpy runs,
\* whether or not arr is sorted.  lo and hi are 0-based.
RECURSIVE BinSearch(_, _, _, _)
BinSearch(arr, key, lo, hi) ==
    IF lo >= hi THEN lo
    ELSE LET mid == lo + ((hi - lo) \div 2)
         IN IF NpLt(arr[mid + 1], key) THEN BinSearch(arr, key, mid + 1, hi)
            ELSE BinSearch(arr, key, lo, mid)

searchsorted(arr, key) == BinSearch(arr, key, 0, Len(arr))

\* LinearInterp._evalOrDer: i = max(searchsorted(x_list[:-1], m), 1),
\* alpha = (m - x[i-1]) / (x[i] - x[i-1]), y = (1-alpha) y[i-1] + alpha y[i];
\* nan below x_list[0] (lower_extrap is False).
LinMix(y0, y1, alpha) == QAdd(QMul(QSub(One, alpha), y0), QMul(alpha, y1))

LinEvalAt(x, y, m, i) ==
    LinMix(y[i], y[i + 1], QDiv(QSub(m, x[i]), QSub(x[i + 1], x[i])))

AtLeast1(s) == IF s < 1 THEN 1 ELSE s

LinEval(x, y, m) ==
    IF QLt(m, x[1]) THEN NaN
    ELSE LinEvalAt(x, y, m, AtLeast1(searchsorted(SubSeq(x, 1, Len(x) - 1), m)))

\* np.min of two numbers (nan propagates).
QMin(a, b) == IF IsNaN(a) \/ IsNaN(b) THEN NaN ELSE IF QLt(b, a) THEN b ELSE a

\* Calling a function object at m.
Eval(f, m) ==
    IF f.kind = "lin" THEN LinEval(f.x, f.y, m)
    ELSE IF f.kind = "env" THEN QMin(LinEval(f.x, f.y, m), LinEval(f.cx, f.cy, m))
    ELSE NaN

\* u.dc.Nvrs: the inverse of marginal utility, x ** (-1/CRRA).
uPinv(x, rho) == QInv(QRoot(x, rho))

\* A value function: its CRRA, the consumption function its derivatives
\* are built from (vFunc.dm = MargValueFuncCRRA(cFunc, CRRA)), and whether
\* the object computes the level v(m) itself.
NoVFunc == [CRRA |-> 0, c |-> NoFunc, level |-> FALSE]

ValueFunc(c, rho) == [CRRA |-> rho, c |-> c, level |-> TRUE]

\* vFunc = NullFunc() with vFunc.dm = MargValueFuncCRRA(cFunc, CRRA): the
\* marginal value without a level.
MargValueOnly(c, rho) == [CRRA |-> rho, c |-> c, level |-> FALSE]

\* vFunc.dm(m) = cFunc(m) ** (-CRRA)
vFunc_dm(v, m) == QPow(Eval(v.c, m), -v.CRRA)

\* The derivative of a LinearInterp at m: the slope of the segment its
\* evaluation uses.  Only a LinearInterp is differentiated here.
Der(f, m) ==
    IF f.kind # "lin" \/ QLt(m, f.x[1]) THEN NaN
    ELSE LET i == AtLeast1(searchsorted(SubSeq(f.x, 1, Len(f.x) - 1), m))
         IN QDiv(QSub(f.y[i + 1], f.y[i]), QSub(f.x[i + 1], f.x[i]))

\* u.dc.dc: the second derivative of utility, -CRRA * c ** (-CRRA - 1).
uPP(c, rho) == QNeg(QMul(QI(rho), QPow(c, -rho - 1)))

\* vFunc.dm.dm(m) = MPC(m) * u''(cFunc(m))
vFunc_dm_dm(v, m) == QMul(Der(v.c, m), uPP(Eval(v.c, m), v.CRRA))

(***************************************************************************)
(* Parameters of the agent and the menus they are drawn from.              *)
(***************************************************************************)
\* Python's None.
NoneQ == [n |-> 0, d |-> -2]

\* A number (possibly inf or nan), as opposed to None or a missing attribute.
IsNum(a) == a.d >= 0

CRRA == 2

\* Rfree = 1.03, PermGroFac = 1, DiscFac = 0.96, LivPrb = 1.
Baseline ==
    [Rfree |-> Q(103, 100), PermGroFac |-> One, DiscFac |-> Q(24, 25), LivPrb |-> One]

\* Every factor one.
Unit == [Rfree |-> One, PermGroFac |-> One, DiscFac |-> One, LivPrb |-> One]

\* Rfree, PermGroFac, DiscFac, LivPrb.  (Rfree * DiscFac * LivPrb) is a
\* perfect square in each, so the patience factors are exact.
Calibrations ==
    { [Rfree |-> QI(2), PermGroFac |-> One, DiscFac |-> Q(1, 4), LivPrb |-> Q(1, 2)],
      [Rfree |-> One, PermGroFac |-> One, DiscFac |-> Q(1, 4), LivPrb |-> One],
      Unit,
      [Rfree |-> QI(4), PermGroFac |-> One, DiscFac |-> One, LivPrb |-> One] }

BoroCnstArtMenu == {NoneQ, Zero, QI(-1)}

aXtraGrid == <<One, QI(2)>>

\* A shock distribution as the income-shock solver receives it: the two
\* marginals permShkDstn and tranShkDstn (pmf and X) and the joint IncShkDstn
\* (pmf and the two rows of X).
NoDstn ==
    [permP |-> <<>>, permX |-> <<>>, tranP |-> <<>>, tranX |-> <<>>,
     jP |-> <<>>, jPerm |-> <<>>, jTran |-> <<>>]

DstnMenu ==
    { \* no risk
      [permP |-> <<One>>, permX |-> <<One>>, tranP |-> <<One>>, tranX |-> <<One>>,
       jP |-> <<One>>, jPerm |-> <<One>>, jTran |-> <<One>>],
      \* unemployment with probability 1/4
      [permP |-> <<One>>, permX |-> <<One>>,
       tranP |-> <<Q(1, 4), Q(3, 4)>>, tranX |-> <<Zero, Q(4, 3)>>,
       jP |-> <<Q(1, 4), Q(3, 4)>>, jPerm |-> <<One, One>>,
       jTran |-> <<Zero, Q(4, 3)>>],
      \* marginals with mean one, joint outcomes with mean 3/2
      [permP |-> <<One>>, permX |-> <<One>>, tranP |-> <<One>>, tranX |-> <<One>>,
       jP |-> <<One>>, jPerm |-> <<Q(3, 2)>>, jTran |-> <<One>>],
      \* a permanent-shock marginal with mean 3/2
      [permP |-> <<One>>, permX |-> <<Q(3, 2)>>, tranP |-> <<One>>, tranX |-> <<One>>,
       jP |-> <<One>>, jPerm |-> <<Q(3, 2)>>, jTran |-> <<One>>] }

\* One transitory distribution (0 with probability 16/25, 25/9 with
\* probability 9/25) with its support listed in either order.
DstnOrderings ==
    { [permP |-> <<One>>, permX |-> <<One>>,
       tranP |-> <<Q(16, 25), Q(9, 25)>>, tranX |-> <<Zero, Q(25, 9)>>,
       jP |-> <<Q(16, 25), Q(9, 25)>>, jPerm |-> <<One, One>>,
       jTran |-> <<Zero, Q(25, 9)>>],
      [permP |-> <<One>>, permX |-> <<One>>,
       tranP |-> <<Q(9, 25), Q(16, 25)>>, tranX |-> <<Q(25, 9), Zero>>,
       jP |-> <<Q(9, 25), Q(16, 25)>>, jPerm |-> <<One, One>>,
       jTran |-> <<Q(25, 9), Zero>>] }

\* The MaxKinks argument every solver is constructed with.  It is kept in
\* parameters_solver; no statement of the solver reads it.
MaxKinks == 1

\* "PF" is ConsPerfForesightSolver, "IS" ConsIndShockSolverBasic and "ISC"
\* ConsIndShockSolver, the subclass that has make_cubic_cFunc.
SolverKinds == {"PF", "IS"}

CubicKinds == SolverKinds \cup {"ISC"}

\* The vFuncBool and CubicBool arguments of the income-shock solvers; Plain
\* is what the agent passes by default.
Options == [vFuncBool : BOOLEAN, CubicBool : BOOLEAN]

Plain == {[vFuncBool |-> FALSE, CubicBool |-> FALSE]}

Statuses == {"not initialized", "terminal_pseudo", "iterator", "finished"}

\* At most this many solvers are constructed in a run.
MaxSolvers == 2

\* The terminal consumption function c(m) = m is given on 0, 1, .., n-1
\* for some n in 2..MaxTermPts.
MaxTermPts == 3

(***************************************************************************)
(* Objects.                                                                *)
(***************************************************************************)
VARIABLES
    agent,    \* the parameters the agent hands to every solver
    solns,    \* the ConsumerSolution objects, by identity
    bilts,    \* the Built namespaces, by identity
    dicts,    \* the stge_kind dictionaries, by identity: their iter_status
    slv,      \* the solver object
    made,     \* number of solvers constructed so far
    sols,     \* the solutions solve has returned, oldest first
    found     \* the last call of mNrmTrg_find or mNrmStE_find

vars == <<agent, solns, bilts, dicts, slv, made, sols, found>>

\* The dictionary that is the default value of ConsumerSolution's stge_kind
\* argument: one object, shared by every call that leaves the argument out.
DefaultDict == 1

\* self.solution_terminal
Terminal == 1

NoFcts ==
    [APF |-> Absent, RPF |-> Absent, GPFRaw |-> Absent, GPFLiv |-> Absent,
     FHWF |-> Absent, hNrmInf |-> Absent, FVAF |-> Absent, GPFNrm |-> Absent,
     WRPF |-> Absent]

NoPars ==
    [given |-> FALSE, IncShkDstn |-> FALSE, tranShkVals |-> FALSE,
     tranShkMin |-> Absent, permShkMin |-> Absent, UnempPrb |-> Absent]

NoFolw ==
    [made |-> FALSE, names |-> {}, cFunc_tp1 |-> NoFunc, vFunc_tp1 |-> NoVFunc,
     hNrm_tp1 |-> Absent, mNrmMin_tp1 |-> Absent, MPCmin_tp1 |-> Absent,
     MPCmax_tp1 |-> Absent, BoroCnstNat_tp1 |-> Absent]

\* The last two say whether the functions of that name are defined.
NoE_t ==
    [IncNrmNxt |-> Absent, Inv_permShk |-> Absent,
     m_tp1_minus_m_t |-> FALSE, permShk_tp1_times_m_tp1_minus_m_t |-> FALSE]

\* ConsumerSolution.__init__ on the namespace it creates: the recursive
\* attributes the record has are copied to bilt, then stge_kind is stored.
Built(sk, cFunc, vFunc, mNrmMin, hNrm, MPCmin, MPCmax) ==
    [stge_kind |-> sk, cFunc |-> cFunc, vFunc |-> vFunc, u |-> 0,
     hNrm |-> hNrm, mNrmMin |-> mNrmMin, MPCmin |-> MPCmin, MPCmax |-> MPCmax,
     BoroCnstNat |-> Absent, BoroCnst |-> Absent,
     cFuncLimitIntercept |-> Absent, cFuncLimitSlope |-> Absent,
     mNrmTrg |-> Absent, mNrmStE |-> Absent,
     fcts |-> NoFcts, recorded |-> {}, passed |-> {}, degenerate |-> "absent",
     parameters_solver |-> FALSE, aXtraGrid |-> FALSE,
     vFuncBool |-> "absent", CubicBool |-> "absent"]

\* ConsumerSolutionOneStateCRRA.__init__: utility is attached and the
\* record-level copies of the recursive attributes are deleted.
ConsumerSolutionOneStateCRRA(b) ==
    [bilt |-> [tag |-> "bilt", id |-> b], stge_kind |-> 0,
     cFunc |-> NoFunc, vFunc |-> NoVFunc, hNrm |-> Absent,
     BoroCnstNat |-> Absent, degenerate |-> "absent",
     pars |-> NoPars, folw |-> NoFolw, E_t |-> NoE_t]

\* ConsumerSolutionOneStateCRRA(): every argument left at its default.
DefaultBuilt ==
    [Built(DefaultDict, NullFunc, [CRRA |-> 0, c |-> NullFunc, level |-> FALSE],
           NoneQ, NoneQ, NoneQ, NoneQ) EXCEPT !.u = CRRA]

Grid(n) == [i \in 1..n |-> QI(i - 1)]

\* The terminal record the agent is constructed with: c(m) = m, no human
\* wealth, marginal propensities of one.
TerminalBuilt(sk, n) ==
    [Built(sk, LinearInterp(Grid(n), Grid(n)),
           ValueFunc(LinearInterp(Grid(n), Grid(n)), CRRA),
           Zero, Zero, One, One) EXCEPT !.u = CRRA]

\* No call of mNrmTrg_find or mNrmStE_find yet.
NoCall == [of |-> "none", on |-> 0, search |-> "none", out |-> "none", ret |-> Absent]

NoSolver ==
    [pc |-> "none", futr |-> 0, crnt |-> 0, out |-> "none",
     seen |-> [rec |-> ConsumerSolutionOneStateCRRA(0),
               bilt |-> DefaultBuilt, bstat |-> "absent", rstat |-> "absent"]]

InitFrom(kinds, cals, opts, menu) ==
    \E k \in kinds, cal \in cals, art \in BoroCnstArtMenu, opt \in opts,
       st \in {"not initialized", "terminal_pseudo"}, n \in 2..MaxTermPts,
       d \in menu \cup {NoDstn} :
        /\ (k = "PF") <=> (d = NoDstn)
        /\ (k = "PF") => (opt \in Plain)
        /\ agent = [solver |-> k, Rfree |-> cal.Rfree,
                    PermGroFac |-> cal.PermGroFac, DiscFac |-> cal.DiscFac,
                    LivPrb |-> cal.LivPrb, BoroCnstArt |-> art, dstn |-> d,
                    vFuncBool |-> opt.vFuncBool, CubicBool |-> opt.CubicBool]
        /\ dicts = IF st = "not initialized" THEN <<st>>
                   ELSE <<"not initialized", st>>
        /\ bilts = <<TerminalBuilt(Len(dicts), n)>>
        /\ solns = <<ConsumerSolutionOneStateCRRA(1)>>
        /\ slv = NoSolver
        /\ made = 0
        /\ sols = <<>>
        /\ found = NoCall

Init == InitFrom(SolverKinds, Calibrations, Plain, DstnMenu)

(***************************************************************************)
(* Reading objects.                                                        *)
(***************************************************************************)
\* What attribute lookups on a ConsumerSolution object find when the object
\* is reached through somebody's .bilt: only its record-level attributes.
SolnAsBuilt(o) ==
    [Built(o.stge_kind, o.cFunc, o.vFunc, Absent, o.hNrm, Absent, Absent)
        EXCEPT !.BoroCnstNat = o.BoroCnstNat]

\* solns[s].bilt, whatever object the attribute refers to.
BiltOf(s) ==
    LET r == solns[s].bilt
    IN IF r.tag = "bilt" THEN bilts[r.id] ELSE SolnAsBuilt(solns[r.id])

StatusOfDict(k) == IF k = 0 THEN "absent" ELSE dicts[k]

\* solns[s].bilt.stge_kind['iter_status']
Status(s) == StatusOfDict(BiltOf(s).stge_kind)

\* Everything that can be read from a record: its own attributes, its bilt
\* namespace and the two status entries.
View(s) ==
    [rec |-> solns[s], bilt |-> BiltOf(s), bstat |-> Status(s),
     rstat |-> StatusOfDict(solns[s].stge_kind)]

Returned == {sols[i] : i \in DOMAIN sols}

\* def_utility(stge, CRRA): attaches the CRRA utility bundle to stge.bilt.
def_utility(b, rho) == [b EXCEPT !.u = rho]

\* def_value_funcs(stge, CRRA): builds stge.bilt.vFunc and its derivatives
\* from stge.bilt.cFunc.
def_value_funcs(b, rho) == [b EXCEPT !.vFunc = ValueFunc(b.cFunc, rho)]

(***************************************************************************)
(* finish_setup_of_default_solution_terminal                               *)
(***************************************************************************)
FinishSetup ==
    /\ solns[Terminal].stge_kind = 0
    /\ LET t == solns[Terminal]
           hNrm == IF t.hNrm = Absent THEN Zero ELSE t.hNrm
           b == t.bilt.id
       IN /\ dicts' = Append(dicts, "terminal_pseudo")
          /\ solns' = [solns EXCEPT ![Terminal] =
                          [t EXCEPT !.hNrm = hNrm, !.BoroCnstNat = QNeg(hNrm),
                                    !.stge_kind = Len(dicts) + 1]]
          /\ bilts' = [bilts EXCEPT ![b] =
                          def_value_funcs(def_utility(bilts[b], CRRA), CRRA)]
    /\ UNCHANGED <<agent, slv, made, sols, found>>

(***************************************************************************)
(* Solver construction.                                                    *)
(***************************************************************************)
\* numpy.testing.assert_approx_equal(actual, 1.0) passes: the difference,
\* scaled by the power of ten below (1 + |actual|)/2, is under 1e-6.
ApproxOne(a) ==
    IF ~IsFinite(a) THEN FALSE
    ELSE LET diff == Abs(a.n - a.d)
             tolInv == IF Abs(a.n) < a.d THEN 10000000 ELSE 1000000
         IN IF diff = 0 THEN TRUE
            ELSE IF Abs(a.n) >= 19 * a.d THEN FALSE
            ELSE IF diff > a.d \div tolInv THEN FALSE
            ELSE diff * tolInv < a.d

\* ConsPerfForesightSolverEOP.__init__ on the new soln_crnt's bilt: a deep
\* copy of the successor's bilt when that is tagged terminal_pseudo.
PseudoFutr(f) ==
    BiltOf(f).stge_kind # 0 /\ Status(f) = "terminal_pseudo"

InitBuilt(f) ==
    [(IF PseudoFutr(f) THEN [BiltOf(f) EXCEPT !.stge_kind = Len(dicts) + 1]
      ELSE DefaultBuilt) EXCEPT !.parameters_solver = TRUE]

\* ConsIndShockSetupEOP.__init__ after the perfect-foresight part.
ShkMeansOK ==
    /\ ApproxOne(Dot(agent.dstn.permP, agent.dstn.permX))
    /\ ApproxOne(Dot(agent.dstn.tranP, agent.dstn.tranX))

ShkPars ==
    [NoPars EXCEPT !.tranShkVals = TRUE,
                   !.permShkMin = SeqMin(agent.dstn.permX),
                   !.tranShkMin = SeqMin(agent.dstn.tranX),
                   !.UnempPrb = agent.dstn.tranP[1]]

Construct(f) ==
    /\ slv.pc \in {"none", "done", "aborted"}
    /\ made < MaxSolvers
    /\ solns[Terminal].stge_kind # 0
    /\ f \in {Terminal} \cup Returned
    \* add_Post_Choice_Value reads the successor's record-level vFunc
    /\ agent.solver # "PF" => (PseudoFutr(f) \/ solns[f].vFunc # NoVFunc)
    /\ LET c == Len(solns) + 1
           b == Len(bilts) + 1
           ok == agent.solver = "PF" \/ ShkMeansOK
           nb == IF agent.solver = "PF" THEN InitBuilt(f)
                 ELSE [InitBuilt(f) EXCEPT
                          !.aXtraGrid = TRUE,
                          !.vFuncBool = IF agent.vFuncBool THEN "True" ELSE "False",
                          !.CubicBool = IF agent.CubicBool THEN "True" ELSE "False"]
           nc == IF agent.solver = "PF"
                 THEN ConsumerSolutionOneStateCRRA(b)
                 ELSE [ConsumerSolutionOneStateCRRA(b) EXCEPT !.pars = ShkPars]
       IN /\ dicts' = IF PseudoFutr(f) THEN Append(dicts, "terminal_pseudo")
                      ELSE dicts
          /\ bilts' = Append(bilts, nb)
          /\ solns' = Append(solns, nc)
          /\ slv' = [pc |-> IF ok THEN "constructed" ELSE "aborted",
                     futr |-> f, crnt |-> c,
                     out |-> IF ok THEN "none" ELSE "raised",
                     seen |-> View(f)]
    /\ made' = made + 1
    /\ UNCHANGED <<agent, sols, found>>

(***************************************************************************)
(* solver_prep_solution_for_an_iteration (prepare_to_solve)                *)
(***************************************************************************)
\* The names of bilt.recursive whose attributes are kept here.
recursive ==
    {"cFunc", "vFunc", "vFunc.dm", "vFunc.dm.dm", "u", "hNrm", "mNrmMin",
     "MPCmin", "MPCmax", "BoroCnstNat"}

\* hasattr(soln_futr.bilt, key): a name with a dot in it is looked up as it
\* is written, and no attribute has such a name.
hasattr(fb, key) ==
    CASE key = "cFunc" -> fb.cFunc # NoFunc
      [] key = "vFunc" -> fb.vFunc # NoVFunc
      [] key \in {"vFunc.dm", "vFunc.dm.dm"} -> FALSE
      [] key = "u" -> fb.u # 0
      [] OTHER -> fb[key] # Absent

\* The recursive attributes found on the successor's bilt, copied to folw
\* under the name key_tp1; names holds the keys that were copied.
FolwFrom(fb) ==
    [made |-> TRUE, names |-> {key \in recursive : hasattr(fb, key)},
     cFunc_tp1 |-> fb.cFunc, vFunc_tp1 |-> fb.vFunc,
     hNrm_tp1 |-> fb.hNrm, mNrmMin_tp1 |-> fb.mNrmMin,
     MPCmin_tp1 |-> fb.MPCmin, MPCmax_tp1 |-> fb.MPCmax,
     BoroCnstNat_tp1 |-> fb.BoroCnstNat]

Prepare ==
    /\ slv.pc = "constructed"
    /\ LET c == slv.crnt
           b == solns[c].bilt.id
           p0 == [solns[c].pars EXCEPT !.given = TRUE,
                                       !.IncShkDstn = (agent.solver # "PF")]
           p1 == IF p0.tranShkVals THEN p0
                 ELSE [p0 EXCEPT !.tranShkMin = One, !.permShkMin = One]
           e1 == IF p0.tranShkVals /\ p0.tranShkMin = One /\ p0.permShkMin = One
                 THEN [solns[c].E_t EXCEPT !.Inv_permShk = One]
                 ELSE solns[c].E_t
           pseudo == dicts[bilts[b].stge_kind] = "terminal_pseudo"
           k == Len(dicts) + 1
       IN IF pseudo
          THEN /\ solns' = [solns EXCEPT ![c].pars = p1, ![c].E_t = e1,
                                         ![c].folw = [NoFolw EXCEPT !.made = TRUE]]
               /\ UNCHANGED <<bilts, dicts>>
          ELSE /\ solns' = [solns EXCEPT ![c].pars = p1, ![c].E_t = e1,
                                         ![c].folw = FolwFrom(BiltOf(slv.futr)),
                                         ![c].stge_kind = k]
               /\ bilts' = [bilts EXCEPT ![b].stge_kind = k]
               /\ dicts' = Append(dicts, "iterator")
    /\ slv' = [slv EXCEPT !.pc = "prepared"]
    /\ UNCHANGED <<agent, made, sols, found>>

(***************************************************************************)
(* Facts.                                                                  *)
(***************************************************************************)
DiscLiv == QMul(agent.DiscFac, agent.LivPrb)

APF == QRoot(QMul(agent.Rfree, DiscLiv), CRRA)

FHWF == QDiv(agent.PermGroFac, agent.Rfree)

\* ConsPerfForesightSolverEOP.build_infhor_facts_from_params
InfhorFactsPF ==
    [NoFcts EXCEPT !.APF = APF,
                   !.RPF = QDiv(APF, agent.Rfree),
                   !.GPFRaw = QDiv(APF, agent.PermGroFac),
                   !.GPFLiv = QDiv(QMul(APF, agent.LivPrb), agent.PermGroFac),
                   !.FHWF = FHWF,
                   !.hNrmInf = IF QLt(FHWF, One)
                               THEN QDiv(One, QSub(One, FHWF)) ELSE PosInf,
                   !.FVAF = QMul(agent.LivPrb, DiscLiv)]

\* E_t.Inv_permShk = E_dot(1/permShkVals, permShkPrbs)
Inv_permShk ==
    Dot([i \in DOMAIN agent.dstn.permX |-> QInv(agent.dstn.permX[i])],
        agent.dstn.permP)

\* E_t.IncNrmNxt = E_dot(ShkPrbs, tranShkValsBcst * permShkValsBcst)
IncNrmNxt ==
    Dot(agent.dstn.jP,
        [i \in DOMAIN agent.dstn.jP |->
            QMul(agent.dstn.jTran[i], agent.dstn.jPerm[i])])

\* ConsIndShockSetupEOP.build_infhor_facts_from_params
InfhorFactsIS(pars) ==
    [InfhorFactsPF EXCEPT
        !.GPFNrm = QMul(InfhorFactsPF.GPFRaw, Inv_permShk),
        !.WRPF = QMul(QRoot(pars.UnempPrb, CRRA), InfhorFactsPF.RPF)]

InfhorFacts(pars) ==
    IF agent.solver = "PF" THEN InfhorFactsPF ELSE InfhorFactsIS(pars)

InfhorE_t(e) ==
    IF agent.solver = "PF" THEN [e EXCEPT !.IncNrmNxt = One]
    ELSE [e EXCEPT !.IncNrmNxt = IncNrmNxt, !.Inv_permShk = Inv_permShk]

\* The artificial constraint ignored.
C8_BoroCnstOf_natural(BNat, BArt) == BNat

\* 'BoroCnstNat if (BoroCnstArt == None) else
\*  (BoroCnstArt if BoroCnstNat < BoroCnstArt else BoroCnstNat)'
BoroCnstOf(BNat, BArt) ==
    IF BArt = NoneQ THEN BNat ELSE IF QLt(BNat, BArt) THEN BArt ELSE BNat

\* The reciprocal left out.
C12_MPCOf_inverted(RPF, MPC_tp1) == QAdd(One, QDiv(RPF, MPC_tp1))

\* '1.0 / (1.0 + (RPF / MPC_tp1))'
MPCOf(RPF, MPC_tp1) == QDiv(One, QAdd(One, QDiv(RPF, MPC_tp1)))

\* build_recursive_facts can evaluate its expressions: the names it takes
\* from folw exist and are numbers.
RecursiveOK(folw) ==
    /\ IsNum(folw.hNrm_tp1) /\ IsNum(folw.mNrmMin_tp1)
    /\ IsNum(folw.MPCmin_tp1) /\ IsNum(folw.MPCmax_tp1)

\* The fixed point of the recursion in place of one step of it.
C19_hNrmOf_limit(hNrm_tp1) ==
    QDiv(QDiv(agent.PermGroFac, agent.Rfree),
         QSub(One, QDiv(agent.PermGroFac, agent.Rfree)))

\* '((PermGroFac / Rfree) * (1.0 + hNrm_tp1))'
hNrmOf(hNrm_tp1) ==
    QMul(QDiv(agent.PermGroFac, agent.Rfree), QAdd(One, hNrm_tp1))

\* '(mNrmMin_tp1 - tranShkMin)*(PermGroFac/Rfree)*permShkMin'
BoroCnstNatOf(folw, pars) ==
    QMul(QMul(QSub(folw.mNrmMin_tp1, pars.tranShkMin),
              QDiv(agent.PermGroFac, agent.Rfree)), pars.permShkMin)

RecursiveFacts(b, hNrm, BNat, BoroCnst, MPCmin, MPCmax) ==
    [b EXCEPT !.hNrm = hNrm, !.BoroCnstNat = BNat, !.BoroCnst = BoroCnst,
              !.MPCmax = MPCmax, !.mNrmMin = BoroCnst, !.MPCmin = MPCmin,
              !.cFuncLimitIntercept = QMul(MPCmin, hNrm),
              !.cFuncLimitSlope = MPCmin]

\* build_recursive_facts, on the bilt it writes to.
build_recursive_facts(b, folw, pars) ==
    RecursiveFacts(b, hNrmOf(folw.hNrm_tp1), BoroCnstNatOf(folw, pars),
                   BoroCnstOf(BoroCnstNatOf(folw, pars), agent.BoroCnstArt),
                   MPCOf(b.fcts.RPF, folw.MPCmin_tp1),
                   MPCOf(b.fcts.RPF, folw.MPCmax_tp1))

(***************************************************************************)
(* make_cFunc_PF                                                           *)
(***************************************************************************)
Last(v) == v[Len(v)]

SetMax(S) == CHOOSE i \in S : \A j \in S : j <= i

\* BoroCnst = max(BoroCnstArt, BoroCnstNat), with -inf for no BoroCnstArt
PFBoroCnst(b) ==
    QMax(IF agent.BoroCnstArt = NoneQ THEN NegInf ELSE agent.BoroCnstArt,
         b.BoroCnstNat)

\* folw.mNrmMin_tp1 = PF_IncNrm_tp1 + BoroCnst * (Rfree/PermGroFac)
PFmNrmMin_tp1(b, e) ==
    QAdd(e.IncNrmNxt, QMul(PFBoroCnst(b), QDiv(agent.Rfree, agent.PermGroFac)))

\* cNrm_cusp = u.dc.Nvrs((Rfree * DiscLiv) * PermGroFac**(-CRRA_tp1)
\*                       * vFunc_tp1.dm(mNrmMin_tp1))
PFcNrm_cusp(b, folw, e) ==
    uPinv(QMul(QMul(QMul(agent.Rfree, DiscLiv),
                    QPow(agent.PermGroFac, -folw.vFunc_tp1.CRRA)),
               vFunc_dm(folw.vFunc_tp1, PFmNrmMin_tp1(b, e))),
          CRRA)

\* The attributes make_cFunc_PF reads from folw exist.
PFReadable(folw) == folw.vFunc_tp1.CRRA # 0 /\ folw.cFunc_tp1.kind = "lin"

\* The successor's interior kinks mapped back one period:
\* cNrm_kinks = (Rfree * DiscLiv) ** (-1/CRRA_tp1) * PermGroFac * cNrm_kinks_tp1
\* mNrm_kinks = (mNrm_kinks_tp1 - PF_IncNrm_tp1) * (PermGroFac/Rfree) + cNrm_kinks
PFcNrm_kink(folw, y) ==
    QMul(QMul(uPinv(QMul(agent.Rfree, DiscLiv), folw.vFunc_tp1.CRRA),
              agent.PermGroFac), y)

PFcNrm_kinks(folw) ==
    [i \in DOMAIN Interior(folw.cFunc_tp1.y) |->
        PFcNrm_kink(folw, Interior(folw.cFunc_tp1.y)[i])]

PFmNrm_kinks(folw, e) ==
    [i \in DOMAIN Interior(folw.cFunc_tp1.x) |->
        QAdd(QMul(QSub(Interior(folw.cFunc_tp1.x)[i], e.IncNrmNxt),
                  QDiv(agent.PermGroFac, agent.Rfree)),
             PFcNrm_kink(folw, Interior(folw.cFunc_tp1.y)[i]))]

NoKinks == [ok |-> FALSE, m |-> <<>>, c |-> <<>>]

\* Keep reachable points: mNrm_kinks[first_reachable:-1] when
\* first_reachable < mNrm_kinks.size - 1 (fr is first_reachable + 1).
KeepReachable(v, fr) == IF fr < Len(v) THEN SubSeq(v, fr, Len(v) - 1) ELSE v

\* The cusp (m0, c0) against the mapped kinks mN, cN.  ok is FALSE when
\* indexing fails: mNrm_kinks[-1] of an empty array, or [0][-1] of an empty
\* np.where(mNrm_kinks >= mNrm_cusp).
CuspAndKinks(mN, cN, m0, c0) ==
    IF Len(mN) = 0 THEN NoKinks
    ELSE IF QLe(mN[Len(mN)], m0) THEN [ok |-> TRUE, m |-> <<m0>>, c |-> <<c0>>]
    ELSE IF {i \in DOMAIN mN : QLe(m0, mN[i])} = {} THEN NoKinks
    ELSE [ok |-> TRUE,
          m |-> <<m0>> \o KeepReachable(mN, SetMax({i \in DOMAIN mN : QLe(m0, mN[i])})),
          c |-> <<c0>> \o KeepReachable(cN, SetMax({i \in DOMAIN mN : QLe(m0, mN[i])}))]

\* mNrm_cusp = cNrm_cusp + BoroCnst
WithCusp(mN, cN, cnst, c0) == CuspAndKinks(mN, cN, QAdd(c0, cnst), c0)

PFKinks(b, folw, e) ==
    WithCusp(PFmNrm_kinks(folw, e), PFcNrm_kinks(folw), PFBoroCnst(b),
             PFcNrm_cusp(b, folw, e))

\* mNrmGrid and cNrmGrid: the constraint point, the kinks, and one more
\* point a unit above the last kink with slope MPCmin.
make_cFunc_PF(b, k) ==
    LinearInterp(<<PFBoroCnst(b)>> \o k.m \o <<QAdd(Last(k.m), One)>>,
                 <<Zero>> \o k.c \o <<QAdd(Last(k.c), b.MPCmin)>>)

(***************************************************************************)
(* ConsPerfForesightSolverEOP.solve_prepared_stage                         *)
(***************************************************************************)
\* The path for a successor that is not terminal_pseudo: what the stage
\* has become when solve returns or raises.  o is soln_crnt with the
\* expectations of build_infhor_facts_from_params, b1 its bilt with utility
\* and those facts, b2 that bilt after build_recursive_facts.
PFStageEnd(o, b2, k, cF) ==
    IF ~k.ok THEN [out |-> "raised", bilt |-> b2, soln |-> o]
    ELSE [out |-> "returned",
          bilt |-> def_value_funcs([b2 EXCEPT !.cFunc = cF], CRRA),
          soln |-> [o EXCEPT !.cFunc = cF]]

PFStageKinks(o, b2, k) ==
    PFStageEnd([o EXCEPT !.folw.mNrmMin_tp1 = PFmNrmMin_tp1(b2, o.E_t)],
               b2, k, IF k.ok THEN make_cFunc_PF(b2, k) ELSE NoFunc)

PFStageRecursive(o, b2) ==
    IF ~PFReadable(o.folw) THEN [out |-> "raised", bilt |-> b2, soln |-> o]
    ELSE PFStageKinks(o, b2, PFKinks(b2, o.folw, o.E_t))

PFStageFacts(o, b1) ==
    IF ~RecursiveOK(o.folw) THEN [out |-> "raised", bilt |-> b1, soln |-> o]
    ELSE PFStageRecursive(o, build_recursive_facts(b1, o.folw, o.pars))

PFStage(c) ==
    PFStageFacts([solns[c] EXCEPT !.E_t = InfhorE_t(@)],
                 [def_utility(bilts[solns[c].bilt.id], CRRA) EXCEPT
                     !.fcts = InfhorFacts(solns[c].pars)])

Finish(c, out) ==
    /\ slv' = [slv EXCEPT !.pc = "done", !.out = out]
    /\ sols' = IF out = "returned" THEN Append(sols, c) ELSE sols

\* The promotion left out.
C3_Promote_skipped(d, k) == d

\* soln_crnt.bilt.stge_kind['iter_status'] = 'iterator' in the terminal
\* branch: k is the dictionary of the solver's own bilt.
Promote(d, k) == [d EXCEPT ![k] = "iterator"]

\* The successor's bilt left alone.
C4_TerminalFutr_kept(f, c) == solns[f]

\* 'self.soln_futr.bilt = def_utility(soln_crnt, CRRA)': def_utility returns
\* the object it was given, so the successor's bilt attribute now refers to
\* the ConsumerSolution object soln_crnt.
TerminalFutr(f, c) == [solns[f] EXCEPT !.bilt = [tag |-> "soln", id |-> c]]

\* breakpoint() is reached when the successor is tagged finished: the
\* debugger either ends the program there or is told to continue.
SolvePF ==
    /\ agent.solver = "PF"
    /\ slv.pc = "prepared"
    /\ LET f == slv.futr
           c == slv.crnt
           b == solns[c].bilt.id
       IN \E resume \in BOOLEAN :
           /\ Status(f) # "finished" => resume
           /\ IF ~resume
              THEN /\ Finish(c, "halted")
                   /\ UNCHANGED <<solns, bilts, dicts>>
              ELSE IF Status(f) = "terminal_pseudo"
              THEN \E nb \in {def_value_funcs(
                               [def_utility(bilts[b], CRRA) EXCEPT
                                   !.fcts = InfhorFacts(solns[c].pars)], CRRA)} :
                      /\ bilts' = [bilts EXCEPT ![b] = nb]
                      /\ dicts' = Promote(dicts, nb.stge_kind)
                      /\ solns' = [solns EXCEPT
                                     ![f] = TerminalFutr(f, c),
                                     ![c].stge_kind = nb.stge_kind,
                                     ![c].cFunc = nb.cFunc,
                                     ![c].E_t = InfhorE_t(@)]
                      /\ Finish(c, "returned")
              ELSE \E r \in {PFStage(c)} :
                   /\ bilts' = [bilts EXCEPT ![b] = r.bilt]
                   /\ solns' = [solns EXCEPT ![c] = r.soln]
                   /\ Finish(c, r.out)
                   /\ UNCHANGED dicts
    /\ UNCHANGED <<agent, made, found>>

(***************************************************************************)
(* ConsIndShockSolverBasicEOP: the endogenous gridpoints method            *)
(***************************************************************************)
\* v_post_choice_t[1] at end-of-period assets a: the expectation over the
\* joint distribution of
\*   (permShk * PermGroFac) ** (1 - CRRA_tp1 - 1) * futr.vFunc.dm(mNrm_tp1)
\*     * Rfree * DiscLiv,   mNrm_tp1 = Rfree / (PermGroFac * permShk) * a + tranShk
v_post_choice_1(fv, a) ==
    Dot(agent.dstn.jP,
        [i \in DOMAIN agent.dstn.jP |->
            LET PermGro == QMul(agent.dstn.jPerm[i], agent.PermGroFac)
                mNrm_tp1 == QAdd(QMul(QDiv(agent.Rfree, PermGro), a),
                                 agent.dstn.jTran[i])
            IN QMul(QMul(QMul(QPow(PermGro, -fv.CRRA),
                              vFunc_dm(fv, mNrm_tp1)),
                         agent.Rfree), DiscLiv)])

\* The grid shifted by the effective constraint.
C25_aNrmGrid_effective(b) ==
    [i \in DOMAIN aXtraGrid |-> QAdd(aXtraGrid[i], b.BoroCnst)]

\* v_post_choice_t[2]: the same expectation of
\*   (permShk * PermGroFac) ** (1 - CRRA_tp1 - 2) * futr.vFunc.dm.dm(mNrm_tp1)
\*     * Rfree * Rfree * DiscLiv
v_post_choice_2(fv, a) ==
    Dot(agent.dstn.jP,
        [i \in DOMAIN agent.dstn.jP |->
            LET PermGro == QMul(agent.dstn.jPerm[i], agent.PermGroFac)
                mNrm_tp1 == QAdd(QMul(QDiv(agent.Rfree, PermGro), a),
                                 agent.dstn.jTran[i])
            IN QMul(QMul(QMul(QMul(QPow(PermGro, -fv.CRRA - 1),
                                   vFunc_dm_dm(fv, mNrm_tp1)),
                              agent.Rfree), agent.Rfree), DiscLiv)])

\* make_ending_states: aNrmGrid = aXtraGrid + BoroCnstNat
aNrmGrid(b) == [i \in DOMAIN aXtraGrid |-> QAdd(aXtraGrid[i], b.BoroCnstNat)]

\* get_source_points_via_EGM: cNrm = u.dc.Nvrs(EndOfPrdvP), mNrm = cNrm + aNrm,
\* with the point (BoroCnstNat, 0) inserted in front.
EGM_cNrm(b, fv, i) == uPinv(v_post_choice_1(fv, aNrmGrid(b)[i]), CRRA)

EGM_c(b, fv) == <<Zero>> \o [i \in DOMAIN aXtraGrid |-> EGM_cNrm(b, fv, i)]

EGM_m(b, fv) ==
    <<b.BoroCnstNat>> \o [i \in DOMAIN aXtraGrid |->
                             QAdd(EGM_cNrm(b, fv, i), aNrmGrid(b)[i])]

\* The envelope left out.
C14_Constrain_never(b, cFuncUnc) == cFuncUnc

\* use_points_for_interpolation, whichever interpolator made cFuncUnc: the
\* lower envelope with the constrained function when BoroCnstArt is not None.
Constrain(b, cFuncUnc) ==
    IF agent.BoroCnstArt = NoneQ THEN cFuncUnc
    ELSE LowerEnvelope(cFuncUnc,
                       LinearInterp(<<b.mNrmMin, QAdd(b.mNrmMin, One)>>,
                                    <<Zero, One>>))

use_points_for_interpolation(b, fv) ==
    Constrain(b, LinearInterp(EGM_m(b, fv), EGM_c(b, fv)))

\* The marginal value taken from the unconstrained interpolant.
C16_solution_unconstrained(cFunc) ==
    [cFunc |-> cFunc, vFunc |-> MargValueOnly(LinearInterp(cFunc.x, cFunc.y), CRRA)]

\* What use_points_for_interpolation packs up and returns: cFunc, and
\* vFunc = NullFunc() with vFunc.dm = MargValueFuncCRRA(cFunc, pars.CRRA).
solution_interpolating(cFunc) ==
    [cFunc |-> cFunc, vFunc |-> MargValueOnly(cFunc, CRRA)]

\* The path for a successor that is not terminal_pseudo.  fv is the vFunc
\* of the successor object itself, read when the expectation is taken.
ISStageEnd(o, b2, sol_EGM) ==
    [out |-> "returned",
     bilt |-> def_value_funcs([b2 EXCEPT !.vFunc = sol_EGM.vFunc,
                                         !.cFunc = sol_EGM.cFunc], CRRA),
     soln |-> [o EXCEPT !.cFunc = sol_EGM.cFunc]]

\* The slope at the lowest gridpoint left to the formula of the others.
C26_CubicMPC_unpinned(b, fv, cNrm_Vec) ==
    [i \in DOMAIN cNrm_Vec |->
        LET a == IF i = 1 THEN b.BoroCnstNat ELSE aNrmGrid(b)[i - 1]
        IN QDiv(QDiv(v_post_choice_2(fv, a), uPP(cNrm_Vec[i], CRRA)),
                QAdd(QDiv(v_post_choice_2(fv, a), uPP(cNrm_Vec[i], CRRA)), One))]

\* make_cubic_cFunc: dc_da = v_post_choice_t[2] / u.dc.dc(cNrm_Vec[1:]),
\* MPC = dc_da / (dc_da + 1.0), then bilt.MPCmax inserted in front.
CubicMPC(b, fv, cNrm_Vec) ==
    <<b.MPCmax>> \o
    [i \in DOMAIN aXtraGrid |->
        QDiv(QDiv(v_post_choice_2(fv, aNrmGrid(b)[i]), uPP(cNrm_Vec[i + 1], CRRA)),
             QAdd(QDiv(v_post_choice_2(fv, aNrmGrid(b)[i]),
                       uPP(cNrm_Vec[i + 1], CRRA)), One))]

make_cubic_cFunc(b, fv, mNrm_Vec, cNrm_Vec) ==
    CubicInterp(mNrm_Vec, cNrm_Vec, CubicMPC(b, fv, cNrm_Vec),
                QMul(b.MPCmin, b.hNrm), b.MPCmin)

\* make_sol_using_EGM looks up self.make_cubic_cFunc when bilt.CubicBool is
\* set: ConsIndShockSolverBasicEOP has no method of that name,
\* ConsIndShockSolverEOP has.
ISStageRecursive(o, b2, fv) ==
    IF fv.CRRA = 0 THEN [out |-> "raised", bilt |-> b2, soln |-> o]
    ELSE IF b2.CubicBool = "True" /\ agent.solver # "ISC"
    THEN [out |-> "raised", bilt |-> b2, soln |-> o]
    ELSE IF b2.CubicBool = "True"
    THEN ISStageEnd(o, b2,
                    solution_interpolating(
                        Constrain(b2, make_cubic_cFunc(b2, fv, EGM_m(b2, fv),
                                                       EGM_c(b2, fv)))))
    ELSE ISStageEnd(o, b2,
                    solution_interpolating(use_points_for_interpolation(b2, fv)))

ISStageFacts(o, b1, fv) ==
    IF ~RecursiveOK(o.folw) THEN [out |-> "raised", bilt |-> b1, soln |-> o]
    ELSE ISStageRecursive(
             [o EXCEPT !.E_t.m_tp1_minus_m_t = TRUE,
                       !.E_t.permShk_tp1_times_m_tp1_minus_m_t = TRUE],
             def_utility(build_recursive_facts(b1, o.folw, o.pars), CRRA), fv)

ISStage(c, futr) ==
    ISStageFacts([solns[c] EXCEPT !.E_t = InfhorE_t(@)],
                 [bilts[solns[c].bilt.id] EXCEPT
                     !.fcts = InfhorFacts(solns[c].pars)],
                 solns[futr].vFunc)

SolveIS ==
    /\ agent.solver # "PF"
    /\ slv.pc = "prepared"
    /\ LET f == slv.futr
           c == slv.crnt
           b == solns[c].bilt.id
       IN IF Status(f) = "terminal_pseudo"
          THEN \E nb \in {[def_value_funcs(def_utility(bilts[b], CRRA), CRRA)
                             EXCEPT !.fcts = InfhorFacts(solns[c].pars)]} :
                  /\ bilts' = [bilts EXCEPT ![b] = nb]
                  /\ dicts' = Promote(dicts, nb.stge_kind)
                  /\ solns' = [solns EXCEPT ![c].vFunc = nb.vFunc,
                                            ![c].cFunc = nb.cFunc,
                                            ![c].E_t = InfhorE_t(@)]
                  /\ Finish(c, "returned")
          ELSE \E r \in {ISStage(c, f)} :
               /\ bilts' = [bilts EXCEPT ![b] = r.bilt]
               /\ solns' = [solns EXCEPT ![c] = r.soln]
               /\ Finish(c, r.out)
               /\ UNCHANGED dicts
    /\ UNCHANGED <<agent, made, found>>

(***************************************************************************)
(* check_conditions                                                        *)
(***************************************************************************)
\* The tests of check_AIC, check_FHWC, check_RIC, check_GICRaw,
\* check_GICNrm, check_GICLiv, check_FVAC and check_WRIC.
Test(name, fc) ==
    CASE name = "AIC" -> QLt(fc.APF, One)
      [] name = "FHWC" -> QLt(fc.FHWF, One)
      [] name = "RIC" -> QLt(fc.RPF, One)
      [] name = "GICRaw" -> QLt(fc.GPFRaw, One)
      [] name = "GICNrm" -> QLe(fc.GPFNrm, One)
      [] name = "GICLiv" -> QLt(fc.GPFLiv, One)
      [] name = "FVAC" -> QLt(fc.FVAF, One)
      [] name = "WRIC" -> QLe(fc.WRPF, One)

\* The checks check_conditions calls; check_GICNrm returns at once when
\* pars has no IncShkDstn.
Called(o) ==
    {"AIC", "FHWC", "RIC", "GICRaw", "GICLiv", "FVAC"}
        \cup (IF o.pars.IncShkDstn THEN {"GICNrm"} ELSE {})

\* hasattr(soln_crnt.bilt, "BoroCnstArt"): nothing stores BoroCnstArt on bilt.
BiltHasBoroCnstArt == FALSE

Degenerate(passed) ==
    IF BiltHasBoroCnstArt /\ agent.BoroCnstArt # NoneQ
    THEN "RIC" \notin passed
    ELSE "RIC" \notin passed \/ "FHWC" \notin passed

CheckConditions(s) ==
    /\ s \in Returned
    /\ slv.pc = "done"
    /\ LET b == solns[s].bilt.id
           passed == {n \in Called(solns[s]) : Test(n, bilts[b].fcts)}
       IN /\ bilts' = [bilts EXCEPT ![b].recorded = Called(solns[s]),
                                    ![b].passed = passed,
                                    ![b].degenerate = "False"]
          /\ solns' = [solns EXCEPT ![s].degenerate =
                          IF Degenerate(passed) THEN "True" ELSE "False"]
    /\ UNCHANGED <<agent, dicts, slv, made, sols, found>>

(***************************************************************************)
(* The backward-induction driver marks a solution it stops at.             *)
(***************************************************************************)
MarkFinished(s) ==
    /\ s \in Returned
    /\ slv.pc = "done"
    /\ Status(s) # "finished"
    /\ dicts' = [dicts EXCEPT ![BiltOf(s).stge_kind] = "finished"]
    /\ UNCHANGED <<agent, solns, bilts, slv, made, sols, found>>

Next ==
    \/ FinishSetup
    \/ \E f \in 1..Len(solns) : Construct(f)
    \/ Prepare
    \/ SolvePF
    \/ SolveIS
    \/ \E s \in 1..Len(solns) : CheckConditions(s)
    \/ \E s \in 1..Len(solns) : MarkFinished(s)

Spec == Init /\ [][Next]_vars

(***************************************************************************)
(* mNrmTrg_find and mNrmStE_find, called on a solution between two solver  *)
(* runs.                                                                   *)
(***************************************************************************)
\* scipy.optimize.newton(f, m_init_guess): the root it returns, or None here
\* for the exception it raises.  It raises when f is not defined.
find_zero_newton(defined, m_init_guess) ==
    IF defined THEN {NoneQ, QAdd(m_init_guess, One)} ELSE {NoneQ}

\* The exception swallowed.
C17_Caught_kept(r, old) == IF r = NoneQ THEN old ELSE r

\* try: bilt.<name> = find_zero_newton(..); except: bilt.<name> = None
Caught(r, old) == r

\* m_init_guess = self.bilt.mNrmMin + self.E_t.IncNrmNxt is computed before
\* the try: the call raises when either is missing or None.
Find(s, name, defined) ==
    /\ slv.pc = "done"
    /\ s \in {Terminal, slv.crnt}
    /\ IF IsNum(BiltOf(s).mNrmMin) /\ IsNum(solns[s].E_t.IncNrmNxt)
       THEN \E r \in find_zero_newton(
                        defined, QAdd(BiltOf(s).mNrmMin, solns[s].E_t.IncNrmNxt)) :
               /\ bilts' = [bilts EXCEPT ![solns[s].bilt.id][name] =
                                             Caught(r, @)]
               /\ found' = [of |-> name, on |-> s,
                            search |-> IF r = NoneQ THEN "failed" ELSE "converged",
                            out |-> "returned",
                            ret |-> Caught(r, bilts[solns[s].bilt.id][name])]
       ELSE /\ found' = [of |-> name, on |-> s, search |-> "none",
                         out |-> "raised", ret |-> Absent]
            /\ UNCHANGED bilts
    /\ UNCHANGED <<agent, solns, dicts, slv, made, sols>>

mNrmTrg_find(s) == Find(s, "mNrmTrg", solns[s].E_t.m_tp1_minus_m_t)

mNrmStE_find(s) ==
    Find(s, "mNrmStE", solns[s].E_t.permShk_tp1_times_m_tp1_minus_m_t)

\* Every stage is solved against the terminal record, or the enhanced
\* record a solver has returned for it.
Bootstrap(f) == BiltOf(f).BoroCnst = Absent

NextTargets ==
    \/ FinishSetup
    \/ \E f \in 1..Len(solns) : Bootstrap(f) /\ Construct(f)
    \/ Prepare
    \/ SolvePF
    \/ SolveIS
    \/ \E s \in 1..Len(solns) : mNrmTrg_find(s)
    \/ \E s \in 1..Len(solns) : mNrmStE_find(s)

InitTargets == InitFrom(SolverKinds, {Unit}, Plain, DstnMenu)

SpecTargets == InitTargets /\ [][NextTargets]_vars

(***************************************************************************)
(* The perfect-foresight solver at the baseline calibration, every stage   *)
(* solved against the terminal bootstrap: the terminal record, or the      *)
(* enhanced record a solver has returned for it.                           *)
(***************************************************************************)
InitBaseline == InitFrom({"PF"}, {Baseline}, Plain, DstnMenu)

NextBaseline ==
    \/ FinishSetup
    \/ \E f \in 1..Len(solns) : Bootstrap(f) /\ Construct(f)
    \/ Prepare
    \/ SolvePF
    \/ \E s \in 1..Len(solns) : CheckConditions(s)
    \/ \E s \in 1..Len(solns) : MarkFinished(s)

SpecBaseline == InitBaseline /\ [][NextBaseline]_vars

(***************************************************************************)
(* The solvers under every setting of vFuncBool and CubicBool.             *)
(***************************************************************************)
InitOptions == InitFrom(CubicKinds, {Unit}, Options, DstnMenu)

SpecOptions == InitOptions /\ [][Next]_vars

\* The same solvers given a transitory distribution whose support is listed
\* in ascending or in descending order.
InitOrderings == InitFrom(SolverKinds, {Unit}, Plain, DstnOrderings)

SpecOrderings == InitOrderings /\ [][Next]_vars

(***************************************************************************)
(* Properties.                                                             *)
(***************************************************************************)
\* A step in which solve_prepared_stage runs to its end.
SolveStep == slv.pc = "prepared" /\ slv'.pc = "done"

\* s was returned by the path for a successor that is not terminal_pseudo:
\* build_recursive_facts has stored its borrowing constraint.
Solved(s) == s \in Returned /\ BiltOf(s).BoroCnst # Absent

\* C1: solve on a solver whose successor was tagged 'finished' ends in a
\* halt or an exception: no solution is returned and the current stage has
\* no consumption function.
C1_FinishedHalts ==
    (slv.pc = "done" /\ slv.seen.bstat = "finished")
        => /\ slv.out \in {"halted", "raised"}
           /\ slv.crnt \notin Returned
           /\ solns[slv.crnt].cFunc = NoFunc

\* C2: no step of a solver (construction, prepare_to_solve, solve) changes
\* anything that can be read from its successor's record: the record's
\* attributes, its bilt namespace, its status entries.
C2_SuccessorUntouched ==
    [][\A f \in DOMAIN solns :
          (slv' # slv /\ slv'.futr = f) => View(f)' = View(f)]_vars

\* C3: solve on a terminal_pseudo successor returns the solver's record
\* with the terminal consumption function, utility attached, the
\* infinite-horizon facts built and bilt status 'iterator'; and no returned
\* record is ever tagged terminal_pseudo.
C3_TerminalEnhanced ==
    /\ [][(SolveStep /\ Status(slv.futr) = "terminal_pseudo")
            => /\ slv'.out = "returned"
               /\ sols' = Append(sols, slv.crnt)
               /\ (Status(slv.crnt) = "iterator")'
               /\ (BiltOf(slv.crnt).u = CRRA)'
               /\ (BiltOf(slv.crnt).fcts)' = InfhorFacts(solns[slv.crnt].pars)
               /\ (BiltOf(slv.crnt).cFunc = slv.seen.bilt.cFunc)']_vars
    /\ [](\A s \in Returned : Status(s) # "terminal_pseudo")

C3_Witness ==
    /\ agent.solver = "IS"
    /\ slv.pc = "done" /\ slv.out = "returned"
    /\ slv.seen.bstat = "terminal_pseudo"
    /\ Status(slv.crnt) = "iterator"
    /\ BiltOf(slv.crnt).fcts.WRPF # Absent

\* C4, for the perfect-foresight solver: when solve has consumed a
\* terminal_pseudo successor, the successor's own
\* soln_futr.bilt.stge_kind['iter_status'] reads 'iterator', and a later
\* solver constructed on the terminal record does not find it
\* terminal_pseudo.
C4_PFPromotesSuccessor ==
    /\ [][(agent.solver = "PF" /\ SolveStep
              /\ Status(slv.futr) = "terminal_pseudo")
            => (Status(slv.futr) = "iterator")']_vars
    /\ [](agent.solver = "PF" /\ made >= 2 /\ slv.futr = Terminal
            => slv.seen.bstat # "terminal_pseudo")

C4_Witness ==
    /\ agent.solver = "PF"
    /\ made = 2 /\ slv.futr = Terminal /\ slv.pc = "done"
    /\ Len(sols) >= 1 /\ solns[sols[1]].folw = [NoFolw EXCEPT !.made = TRUE]
    /\ slv.seen.bstat = "iterator"

\* C4 as stated, for either solver: consuming a terminal_pseudo successor
\* leaves the successor's own status entry reading 'iterator', and a second
\* solver on the terminal record does not find it terminal_pseudo.
C4_PromotesSuccessor ==
    /\ [][(SolveStep /\ Status(slv.futr) = "terminal_pseudo")
            => (Status(slv.futr) = "iterator")']_vars
    /\ [](made >= 2 /\ slv.futr = Terminal
            => slv.seen.bstat # "terminal_pseudo")

\* C5: every income-shock solver that was constructed without an exception
\* has a joint shock distribution whose permanent and transitory outcomes
\* both have probability-weighted mean 1.0.
C5_JointMeansOne ==
    (agent.solver = "IS" /\ slv.pc \in {"constructed", "prepared", "done"})
        => /\ ApproxOne(Dot(agent.dstn.jP, agent.dstn.jPerm))
           /\ ApproxOne(Dot(agent.dstn.jP, agent.dstn.jTran))

\* The rule for the degenerate flag: with an artificial borrowing constraint
\* not RIC, otherwise not RIC or not FHWC.
C6_Rule(fc) ==
    IF agent.BoroCnstArt # NoneQ THEN ~QLt(fc.RPF, One)
    ELSE ~QLt(fc.RPF, One) \/ ~QLt(fc.FHWF, One)

\* C6: once check_conditions has run on a solved stage, the stage's
\* degenerate flag is the value the rule gives.
C6_DegenerateRule ==
    \A s \in Returned :
        (Solved(s) /\ solns[s].degenerate # "absent")
            => solns[s].degenerate =
                  (IF C6_Rule(BiltOf(s).fcts) THEN "True" ELSE "False")

\* C7: once check_conditions has run on a solved income-shock stage, a
\* result is recorded for each of the eight conditions.
C7_EightRecorded ==
    \A s \in Returned :
        (agent.solver = "IS" /\ Solved(s) /\ solns[s].degenerate # "absent")
            => BiltOf(s).recorded = {"AIC", "FHWC", "RIC", "GICRaw", "GICNrm",
                                     "GICLiv", "FVAC", "WRIC"}

\* The tighter of the natural and the artificial constraint.
C8_Tighter(b) ==
    IF agent.BoroCnstArt = NoneQ THEN b.BoroCnstNat
    ELSE IF QLt(agent.BoroCnstArt, b.BoroCnstNat) THEN b.BoroCnstNat
    ELSE agent.BoroCnstArt

\* C8: on every solved non-terminal stage bilt.BoroCnst, bilt.mNrmMin and,
\* for the perfect-foresight solver, the BoroCnst of make_cFunc_PF are the
\* natural constraint when there is no artificial one and the larger of the
\* two otherwise.
C8_EffectiveConstraint ==
    \A s \in DOMAIN solns :
        Solved(s)
            => /\ BiltOf(s).BoroCnst = C8_Tighter(BiltOf(s))
               /\ BiltOf(s).mNrmMin = C8_Tighter(BiltOf(s))
               /\ agent.solver = "PF"
                    => PFBoroCnst(BiltOf(s)) = C8_Tighter(BiltOf(s))

C8_Witness ==
    \E s \in DOMAIN solns :
        /\ Solved(s)
        /\ agent.BoroCnstArt # NoneQ
        /\ QLt(BiltOf(s).BoroCnstNat, agent.BoroCnstArt)
        /\ BiltOf(s).mNrmMin = agent.BoroCnstArt

\* C9: on every solved non-terminal stage the returned consumption function
\* is exactly 0 at mNrmMin.
C9_ZeroAtConstraint ==
    \A s \in DOMAIN solns :
        Solved(s) => Eval(BiltOf(s).cFunc, BiltOf(s).mNrmMin) = Zero

\* C10: the breakpoints of every consumption function make_cFunc_PF has
\* built are strictly increasing.
C10_KinksIncreasing ==
    \A s \in DOMAIN solns :
        (agent.solver = "PF" /\ Solved(s))
            => StrictlyIncreasing(BiltOf(s).cFunc.x)

\* The distinct kink points of a piecewise-linear function: its breakpoints
\* other than the constraint point and the extrapolation point.
C11_Kinks(f) == {f.x[i] : i \in 2..(Len(f.x) - 1)} \ {f.x[1]}

\* C11: with MaxKinks set, no consumption function the perfect-foresight
\* solver returns has more than MaxKinks kink points.
C11_MaxKinksCap ==
    \A s \in DOMAIN solns :
        (agent.solver = "PF" /\ Solved(s))
            => Cardinality(C11_Kinks(BiltOf(s).cFunc)) <= MaxKinks

\* C12: on every returned stage 0 <= MPCmin <= MPCmax <= 1, and on every
\* solved stage both come from the successor's by 1/(1 + RPF/MPC_tp1).
C12_MPCBounds ==
    \A s \in Returned :
        /\ QLe(Zero, BiltOf(s).MPCmin)
        /\ QLe(BiltOf(s).MPCmin, BiltOf(s).MPCmax)
        /\ QLe(BiltOf(s).MPCmax, One)
        /\ Solved(s) =>
             /\ QLt(Zero, BiltOf(s).fcts.RPF)
             /\ BiltOf(s).MPCmin
                  = MPCOf(BiltOf(s).fcts.RPF, solns[s].folw.MPCmin_tp1)
             /\ BiltOf(s).MPCmax
                  = MPCOf(BiltOf(s).fcts.RPF, solns[s].folw.MPCmax_tp1)

C12_Witness ==
    \E s \in DOMAIN solns :
        /\ Solved(s)
        /\ QLt(solns[s].folw.MPCmin_tp1, One)
        /\ QLt(Zero, BiltOf(s).MPCmin)
        /\ QLt(BiltOf(s).MPCmin, solns[s].folw.MPCmin_tp1)

\* The points a piecewise-linear function is compared at: its breakpoints
\* from lo up to its last interpolated breakpoint.
C13_Breaks(f) == {f.x[i] : i \in DOMAIN f.x} \cup {f.cx[i] : i \in DOMAIN f.cx}

C13_Points(f, lo) == {m \in C13_Breaks(f) : QLe(lo, m) /\ QLe(m, Last(f.x))}

C13_Monotone(f, lo) ==
    \A m1, m2 \in C13_Points(f, lo) :
        QLe(m1, m2) => QLe(Eval(f, m1), Eval(f, m2))

\* C13: the consumption function of every solved stage is non-decreasing
\* at and above mNrmMin.
C13_NonDecreasing ==
    \A s \in DOMAIN solns :
        Solved(s) => C13_Monotone(BiltOf(s).cFunc, BiltOf(s).mNrmMin)

\* The same for the stages whose breakpoints are strictly increasing.
C13_NonDecreasingSorted ==
    \A s \in DOMAIN solns :
        (Solved(s) /\ StrictlyIncreasing(BiltOf(s).cFunc.x))
            => C13_Monotone(BiltOf(s).cFunc, BiltOf(s).mNrmMin)

\* The unconstrained interpolant a returned function was built from.
C14_Unc(f) == LinearInterp(f.x, f.y)

\* f is the interpolant through the EGM points of b: the point
\* (BoroCnstNat, 0) and one point for each entry of aXtraGrid.
C14_IsInterpolant(f, b) ==
    /\ Len(f.x) = Len(aXtraGrid) + 1
    /\ f.x[1] = b.BoroCnstNat
    /\ f.y[1] = Zero

\* C14: on every stage the EGM solver has solved, with BoroCnstArt set the
\* consumption function is the lower envelope of the unconstrained
\* interpolant and the segment through (mNrmMin, 0) with slope 1, so that
\* cFunc(m) = min(unconstrained(m), m - mNrmMin) <= m - mNrmMin at and above
\* mNrmMin; with BoroCnstArt None it is the unconstrained interpolant.
C14_LowerEnvelope ==
    \A s \in DOMAIN solns :
        (agent.solver = "IS" /\ Solved(s)) =>
            /\ C14_IsInterpolant(C14_Unc(BiltOf(s).cFunc), BiltOf(s))
            /\ agent.BoroCnstArt = NoneQ => BiltOf(s).cFunc.kind = "lin"
            /\ agent.BoroCnstArt # NoneQ =>
                 /\ BiltOf(s).cFunc.kind = "env"
                 /\ \A m \in C13_Points(BiltOf(s).cFunc, BiltOf(s).mNrmMin) :
                      /\ QLe(Eval(BiltOf(s).cFunc, m), QSub(m, BiltOf(s).mNrmMin))
                      /\ Eval(BiltOf(s).cFunc, m)
                           = QMin(Eval(C14_Unc(BiltOf(s).cFunc), m),
                                  QSub(m, BiltOf(s).mNrmMin))

\* A solved stage on which the constraint binds: the unconstrained
\* interpolant is above m - mNrmMin somewhere.
C14_Witness ==
    \E s \in DOMAIN solns :
        /\ agent.solver = "IS" /\ Solved(s) /\ agent.BoroCnstArt # NoneQ
        /\ \E m \in C13_Points(BiltOf(s).cFunc, BiltOf(s).mNrmMin) :
              QLt(QSub(m, BiltOf(s).mNrmMin), Eval(C14_Unc(BiltOf(s).cFunc), m))

\* The unconstrained perfect-foresight consumption function of a stage:
\* c(m) = MPCmin * (m + hNrm).
C15_Unc(b, m) == QMul(b.MPCmin, QAdd(m, b.hNrm))

\* The market resources the functions are compared at: the breakpoints at
\* or above zero, and some points below the first kink.
C15_Points(f) ==
    {m \in {f.x[i] : i \in DOMAIN f.x} \cup {Zero, Q(1, 2), One} :
        QLe(Zero, m)}

\* Both functions are piecewise linear: they agree everywhere when they
\* agree at the breakpoints and the two branches of the minimum cross at a
\* breakpoint.
C15_IsMin(b) ==
    /\ Eval(b.cFunc, Zero) = Zero
    /\ \A m \in C15_Points(b.cFunc) :
          Eval(b.cFunc, m) = QMin(m, C15_Unc(b, m))
    /\ \E m \in C15_Points(b.cFunc) : C15_Unc(b, m) = m

\* C15: at the baseline calibration with BoroCnstArt = 0, a perfect-foresight
\* stage solved against the terminal bootstrap returns a consumption
\* function equal to min(m, unconstrained c(m)) at every m >= 0, zero at 0.
C15_MinOfUnconstrained ==
    (/\ agent.BoroCnstArt = Zero
     /\ slv.pc = "done"
     /\ slv.seen.bstat \notin {"terminal_pseudo", "finished"})
        => /\ slv.out = "returned"
           /\ C15_IsMin(BiltOf(slv.crnt))

\* The same for the stages that were solved.
C15_MinWhenSolved ==
    \A s \in DOMAIN solns :
        (agent.BoroCnstArt = Zero /\ Solved(s)) => C15_IsMin(BiltOf(s))

C15_Witness ==
    \E s \in DOMAIN solns :
        /\ agent.BoroCnstArt = Zero /\ Solved(s)
        /\ \E m \in C15_Points(BiltOf(s).cFunc) :
              QLt(C15_Unc(BiltOf(s), m), m)
        /\ \E m \in C15_Points(BiltOf(s).cFunc) :
              QLt(m, C15_Unc(BiltOf(s), m))

C17_SearchFailureIsNone ==
    [][\A s \in DOMAIN solns :
          (found' # found /\ found'.on = s /\ found'.search # "none")
              => /\ found'.out = "returned"
                 /\ found'.of = "mNrmTrg" => found'.ret = (BiltOf(s).mNrmTrg)'
                 /\ found'.of = "mNrmStE" => found'.ret = (BiltOf(s).mNrmStE)'
                 /\ (found'.search = "failed") <=> (found'.ret = NoneQ)
                 /\ found'.search = "converged"
                      => found'.ret
                           = QAdd(QAdd(BiltOf(s).mNrmMin, solns[s].E_t.IncNrmNxt),
                                  One)]_vars

\* A failed search after a converged one on the same solution.
C17_Witness ==
    /\ found.search = "failed"
    /\ found.of = "mNrmTrg"
    /\ BiltOf(found.on).mNrmTrg = NoneQ
    /\ IsNum(BiltOf(found.on).mNrmStE)

\* What reading name on a record finds: the record's own attribute or, when
\* it has none, the attribute of its bilt.
C18_Read(s, name) ==
    IF name \in {"hNrm", "BoroCnstNat"} /\ solns[s][name] # Absent
    THEN solns[s][name]
    ELSE BiltOf(s)[name]

\* The perfect-foresight solver has just returned the record it made from a
\* successor tagged terminal_pseudo.
C18_Enhanced ==
    /\ agent.solver = "PF"
    /\ slv.pc = "done" /\ slv.out = "returned"
    /\ slv.seen.bstat = "terminal_pseudo"
    /\ slv.seen.rec.hNrm = Zero

\* C18: the record the perfect-foresight solver makes from the terminal
\* record, whose hNrm was set to zero by the terminal setup, has hNrm = 0,
\* BoroCnstNat = 0 and MPCmin = MPCmax = 1.
C18_TerminalBootstrap ==
    C18_Enhanced =>
        /\ C18_Read(slv.crnt, "hNrm") = Zero
        /\ C18_Read(slv.crnt, "BoroCnstNat") = Zero
        /\ C18_Read(slv.crnt, "MPCmin") = One
        /\ C18_Read(slv.crnt, "MPCmax") = One

\* The part that holds: the record made has hNrm = 0 and MPCmin = MPCmax = 1,
\* and BoroCnstNat = 0 stays on the terminal record the setup wrote it to.
C18_BootstrapWithoutBoroCnstNat ==
    C18_Enhanced =>
        /\ C18_Read(slv.crnt, "hNrm") = Zero
        /\ C18_Read(slv.crnt, "MPCmin") = One
        /\ C18_Read(slv.crnt, "MPCmax") = One
        /\ C18_Read(slv.crnt, "BoroCnstNat") = Absent
        /\ solns[slv.futr].BoroCnstNat = Zero

\* The terminal branch has been taken.
C18_Reached == C18_Enhanced /\ slv.futr = Terminal

\* build_recursive_facts has run on stage s of a baseline agent without an
\* artificial borrowing constraint, for a successor with hNrm = 0.
C19_Stage(s) ==
    /\ agent = [solver |-> "PF", Rfree |-> Q(103, 100), PermGroFac |-> One,
                DiscFac |-> Q(24, 25), LivPrb |-> One, BoroCnstArt |-> NoneQ,
                dstn |-> NoDstn, vFuncBool |-> FALSE, CubicBool |-> FALSE]
    /\ solns[s].bilt.tag = "bilt"
    /\ BiltOf(s).BoroCnst # Absent
    /\ solns[s].folw.hNrm_tp1 = Zero

\* C19 as stated: the stage has FHWF = 1/1.03, hNrm = FHWF/(1 - FHWF) and a
\* degenerate flag that is False.
C19_HumanWealthLimit ==
    \A s \in DOMAIN solns :
        C19_Stage(s) =>
            /\ BiltOf(s).fcts.FHWF = Q(100, 103)
            /\ BiltOf(s).hNrm = QDiv(BiltOf(s).fcts.FHWF,
                                     QSub(One, BiltOf(s).fcts.FHWF))
            /\ solns[s].degenerate # "True" /\ BiltOf(s).degenerate # "True"

\* C19, with the human wealth the recursion gives: the stage has
\* FHWF = 1/1.03, hNrm = FHWF * (1 + 0) = 1/1.03, below the infinite-horizon
\* value hNrmInf - 1 = FHWF/(1 - FHWF) = 100/3, and its degenerate flag is
\* False once check_conditions has set it.
C19_HumanWealthOneStage ==
    \A s \in DOMAIN solns :
        C19_Stage(s) =>
            /\ BiltOf(s).fcts.FHWF = Q(100, 103)
            /\ BiltOf(s).hNrm = Q(100, 103)
            /\ QSub(BiltOf(s).fcts.hNrmInf, One) = Q(100, 3)
            /\ QLt(BiltOf(s).hNrm, QSub(BiltOf(s).fcts.hNrmInf, One))
            /\ solns[s].degenerate # "True" /\ BiltOf(s).degenerate # "True"

\* A returned baseline stage on which check_conditions has run.
C19_Witness ==
    \E s \in Returned :
        /\ C19_Stage(s)
        /\ solns[s].degenerate = "False" /\ BiltOf(s).degenerate = "False"
        /\ {"RIC", "FHWC"} \subseteq BiltOf(s).passed

\* Both shocks equal 1.0 with probability 1.
C20_NoRisk ==
    /\ agent.solver = "IS"
    /\ agent.dstn.permX = <<One>> /\ agent.dstn.tranX = <<One>>
    /\ agent.dstn.jPerm = <<One>> /\ agent.dstn.jTran = <<One>>

\* What the perfect-foresight solver's solve_prepared_stage makes of stage s:
\* the same scalar parameters and the same folw, with its own facts and
\* PF_IncNrm_tp1 = 1.
C20_PF(s) ==
    PFStageFacts([solns[s] EXCEPT !.E_t = [@ EXCEPT !.IncNrmNxt = One]],
                 [def_utility(BiltOf(s), CRRA) EXCEPT !.fcts = InfhorFactsPF])

\* The breakpoints of both functions in the range both interpolate on.
C20_Points(f, g, lo) ==
    {m \in C13_Breaks(f) \cup C13_Breaks(g) :
        QLe(lo, m) /\ QLe(m, Last(f.x)) /\ QLe(m, Last(g.x))}

C20_Match(s) ==
    /\ C20_PF(s).out = "returned"
    /\ \A m \in C20_Points(BiltOf(s).cFunc, C20_PF(s).bilt.cFunc,
                           BiltOf(s).mNrmMin) :
          Eval(BiltOf(s).cFunc, m) = Eval(C20_PF(s).bilt.cFunc, m)

\* C20: the consumption function of every stage the income-shock solver
\* solves without risk equals, at every m, the one the perfect-foresight
\* solver makes for the same parameters and successor.
C20_NoRiskIsPerfectForesight ==
    \A s \in DOMAIN solns : (C20_NoRisk /\ Solved(s)) => C20_Match(s)

\* The part that holds: the two functions are equal at every breakpoint
\* whenever the perfect-foresight solver returns one whose breakpoints are
\* strictly increasing, which it does for a successor function with an
\* interior breakpoint and a borrowing constraint that binds.
C20_MatchWhenSorted ==
    \A s \in DOMAIN solns :
        (C20_NoRisk /\ Solved(s)) =>
            /\ (solns[s].folw.cFunc_tp1.kind = "lin"
                 /\ Len(solns[s].folw.cFunc_tp1.x) > 2)
                    => C20_PF(s).out = "returned"
            /\ (C20_PF(s).out = "returned"
                 /\ StrictlyIncreasing(C20_PF(s).bilt.cFunc.x))
                    => C20_Match(s)

\* A stage solved without risk whose function has other breakpoints than
\* the perfect-foresight one and equals it at all of them.
C20_Reached ==
    \E s \in DOMAIN solns :
        /\ C20_NoRisk /\ Solved(s) /\ C20_Match(s)
        /\ BiltOf(s).cFunc.x # C20_PF(s).bilt.cFunc.x
        /\ agent.Rfree # One

\* C21: a stage the EGM solver has solved has a value function that
\* computes the level v(m) only when vFuncBool is True; with vFuncBool False
\* it has the consumption function and the marginal value alone.
C21_LevelOnlyIfConfigured ==
    \A s \in DOMAIN solns :
        (agent.solver = "IS" /\ Solved(s)) =>
            /\ BiltOf(s).cFunc.kind \in {"lin", "env"}
            /\ BiltOf(s).vFunc.c = BiltOf(s).cFunc
            /\ BiltOf(s).vFunc.level <=> (BiltOf(s).vFuncBool = "True")

\* The part that holds: the consumption function and the marginal value are
\* there, and so is the level, whatever vFuncBool is.
C21_LevelAlways ==
    \A s \in DOMAIN solns :
        (agent.solver = "IS" /\ Solved(s)) =>
            /\ BiltOf(s).cFunc.kind \in {"lin", "env"}
            /\ BiltOf(s).vFunc.c = BiltOf(s).cFunc
            /\ BiltOf(s).vFunc.level

\* A stage solved with vFuncBool False.
C21_Reached ==
    \E s \in DOMAIN solns :
        agent.solver = "IS" /\ Solved(s) /\ BiltOf(s).vFuncBool = "False"

\* solve has ended on a ConsIndShockSolverBasic whose successor was not
\* tagged terminal_pseudo.
C22_Ended ==
    /\ agent.solver = "IS"
    /\ slv.pc = "done"
    /\ slv.seen.bstat # "terminal_pseudo"

\* C22: for every value of CubicBool, solving a non-terminal stage with
\* ConsIndShockSolverBasic returns a consumption function built by the
\* linear interpolator.
C22_LinearForEveryCubicBool ==
    C22_Ended =>
        /\ slv.out = "returned"
        /\ BiltOf(slv.crnt).cFunc.kind \in {"lin", "env"}

\* The part that holds: the solve returns, with a linearly interpolated
\* function, exactly when CubicBool is False, and raises when it is True.
C22_LinearUnlessCubicBool ==
    C22_Ended =>
        /\ (slv.out = "returned") <=> (BiltOf(slv.crnt).CubicBool = "False")
        /\ (slv.out = "raised") <=> (BiltOf(slv.crnt).CubicBool = "True")
        /\ slv.out = "returned" => BiltOf(slv.crnt).cFunc.kind \in {"lin", "env"}

\* A solve with CubicBool True has ended.
C22_Reached == C22_Ended /\ agent.CubicBool

\* prepare_to_solve has just run for a successor not tagged terminal_pseudo.
C23_Prepared == slv.pc = "prepared" /\ slv.seen.bstat # "terminal_pseudo"

\* The successor has built the quantity called key: its bilt has the
\* attribute, and for a derivative of vFunc its vFunc has the derivative.
C23_HasBuilt(fb, key) ==
    CASE key = "cFunc" -> fb.cFunc # NoFunc
      [] key = "vFunc" -> fb.vFunc # NoVFunc
      [] key \in {"vFunc.dm", "vFunc.dm.dm"} -> fb.vFunc.CRRA # 0
      [] key = "u" -> fb.u # 0
      [] OTHER -> fb[key] # Absent

\* The entries folw holds are equal to the successor's values.
C23_Values(folw, fb) ==
    /\ folw.cFunc_tp1 = fb.cFunc /\ folw.vFunc_tp1 = fb.vFunc
    /\ folw.hNrm_tp1 = fb.hNrm /\ folw.mNrmMin_tp1 = fb.mNrmMin
    /\ folw.MPCmin_tp1 = fb.MPCmin /\ folw.MPCmax_tp1 = fb.MPCmax
    /\ folw.BoroCnstNat_tp1 = fb.BoroCnstNat

\* C23: after prepare_to_solve for a successor that is not terminal_pseudo,
\* folw has an entry key_tp1, equal to the successor's value, for exactly
\* the names key of bilt.recursive that the successor has built.
C23_FolwEntries ==
    C23_Prepared =>
        /\ solns[slv.crnt].folw.names
              = {key \in recursive : C23_HasBuilt(BiltOf(slv.futr), key)}
        /\ C23_Values(solns[slv.crnt].folw, BiltOf(slv.futr))

\* The part that holds: the entries are those of the names without a dot
\* that are attributes of the successor's bilt; vFunc.dm and vFunc.dm.dm
\* get no entry and are reached through vFunc_tp1.
C23_FolwEntriesUndotted ==
    C23_Prepared =>
        /\ solns[slv.crnt].folw.names
              = {key \in recursive \ {"vFunc.dm", "vFunc.dm.dm"} :
                    C23_HasBuilt(BiltOf(slv.futr), key)}
        /\ C23_Values(solns[slv.crnt].folw, BiltOf(slv.futr))

\* Prepared for a successor whose value function has derivatives.
C23_Reached ==
    /\ C23_Prepared
    /\ C23_HasBuilt(BiltOf(slv.futr), "vFunc.dm")
    /\ "vFunc" \in solns[slv.crnt].folw.names

\* solve_prepared_stage on the prepared stage c of the solver, with g as the
\* live successor object self.soln_futr.
C24_Solve(c, g) ==
    IF agent.solver = "PF" THEN PFStage(c) ELSE ISStage(c, g)

\* The objects that can stand in for the successor on the path that uses
\* folw: those not tagged terminal_pseudo or finished.
C24_Successors ==
    {g \in DOMAIN solns : Status(g) \notin {"terminal_pseudo", "finished"}}

\* A solve of a stage whose folw was filled returns.
C24_Returns ==
    /\ SolveStep
    /\ slv.seen.bstat # "terminal_pseudo"
    /\ slv'.out = "returned"

\* C24: the consumption function a solve returns is the one the same pars
\* and folw give with any other live successor object.
C24_DependsOnlyOnFolw ==
    [][C24_Returns =>
          \A g \in C24_Successors :
              /\ C24_Solve(slv.crnt, g).out = "returned"
              /\ C24_Solve(slv.crnt, g).soln.cFunc = solns'[slv.crnt].cFunc]_vars

\* The part that holds: the perfect-foresight solver returns the same
\* function with every live successor, the EGM solver with those whose
\* own vFunc attribute is the value function copied to folw.
C24_DependsOnFolwAndLiveVFunc ==
    [][C24_Returns =>
          \A g \in C24_Successors :
              (agent.solver = "IS"
                  => solns[g].vFunc = solns[slv.crnt].folw.vFunc_tp1)
              => /\ C24_Solve(slv.crnt, g).out = "returned"
                 /\ C24_Solve(slv.crnt, g).soln.cFunc
                        = solns'[slv.crnt].cFunc]_vars

\* An EGM solve has returned while another live object was there to stand
\* in for the successor.
C24_Reached ==
    /\ agent.solver = "IS" /\ slv.pc = "done" /\ slv.out = "returned"
    /\ slv.seen.bstat # "terminal_pseudo"
    /\ \E g \in C24_Successors : solns[g].vFunc # solns[slv.futr].vFunc

\* The interpolation points (f.x, f.y) of a stage with bilt b are the EGM
\* points for the asset grid aXtraGrid + BoroCnstNat and the successor's
\* value function fv.
C25_Points(b, f, fv) ==
    /\ Len(f.x) = Len(aXtraGrid) + 1 /\ Len(f.y) = Len(aXtraGrid) + 1
    /\ f.x[1] = b.BoroCnstNat /\ f.y[1] = Zero
    /\ \A i \in DOMAIN aXtraGrid :
          /\ f.x[i + 1] = QAdd(f.y[i + 1], QAdd(aXtraGrid[i], b.BoroCnstNat))
          /\ f.y[i + 1]
                = uPinv(v_post_choice_1(fv, QAdd(aXtraGrid[i], b.BoroCnstNat)),
                        CRRA)

\* C25: on every stage the EGM solver has solved, the unconstrained
\* interpolant runs through n+1 points for the n asset gridpoints
\* a_i = aXtraGrid[i] + BoroCnstNat: first (BoroCnstNat, 0), then
\* m_i = c_i + a_i with c_i the marginal-utility inverse of the expected
\* post-choice marginal value at a_i, also when BoroCnstArt is tighter than
\* BoroCnstNat.
C25_EGMPoints ==
    \A s \in DOMAIN solns :
        (agent.solver = "IS" /\ Solved(s)) =>
            C25_Points(BiltOf(s), BiltOf(s).cFunc, solns[s].folw.vFunc_tp1)

\* A solved stage whose artificial constraint is tighter than the natural one.
C25_Witness ==
    \E s \in DOMAIN solns :
        /\ agent.solver = "IS" /\ Solved(s)
        /\ agent.BoroCnstArt # NoneQ
        /\ QLt(BiltOf(s).BoroCnstNat, BiltOf(s).BoroCnst)
        /\ BiltOf(s).cFunc.x[1] = BiltOf(s).BoroCnstNat
        /\ QLt(Zero, BiltOf(s).cFunc.y[2])

\* A stage solved by ConsIndShockSolver with CubicBool set.
C26_Cubic(s) ==
    agent.solver = "ISC" /\ Solved(s) /\ BiltOf(s).CubicBool = "True"

\* dc_da at asset gridpoint i for consumption c there: the second derivative
\* of post-choice expected value over u''(c).
C26_dc_da(b, fv, i, c) ==
    QDiv(v_post_choice_2(fv, QAdd(aXtraGrid[i], b.BoroCnstNat)),
         QNeg(QMul(QI(CRRA), QPow(c, -CRRA - 1))))

\* C26: the cubic interpolant of a stage carries one slope per interpolation
\* point; the slope at the lowest gridpoint is the stage's MPCmax, every
\* other one is dc_da/(dc_da + 1), the limiting slope is MPCmin and the
\* limiting intercept MPCmin*hNrm.
C26_CubicSlopes ==
    \A s \in DOMAIN solns :
        C26_Cubic(s) =>
            LET b == BiltOf(s)
                f == b.cFunc
                fv == solns[s].folw.vFunc_tp1
            IN /\ Len(f.dydx) = Len(f.x)
               /\ Len(f.dydx) = Len(aXtraGrid) + 1
               /\ f.dydx[1] = b.MPCmax
               /\ \A i \in DOMAIN aXtraGrid :
                     f.dydx[i + 1]
                         = QDiv(C26_dc_da(b, fv, i, f.y[i + 1]),
                                QAdd(C26_dc_da(b, fv, i, f.y[i + 1]), One))
               /\ f.limit = <<QMul(b.MPCmin, b.hNrm), b.MPCmin>>

\* A cubic stage whose slopes past the lowest gridpoint are finite, lie
\* strictly between 0 and 1 and differ from MPCmax.
C26_Witness ==
    \E s \in DOMAIN solns :
        /\ C26_Cubic(s)
        /\ \A i \in DOMAIN aXtraGrid :
              /\ QLt(Zero, BiltOf(s).cFunc.dydx[i + 1])
              /\ QLt(BiltOf(s).cFunc.dydx[i + 1], One)
        /\ BiltOf(s).cFunc.dydx[2] # BiltOf(s).MPCmax

\* The probability of the minimum value of the transitory-shock support.
C27_MinPrb ==
    Dot(agent.dstn.tranP,
        [i \in DOMAIN agent.dstn.tranX |->
            IF agent.dstn.tranX[i] = SeqMin(agent.dstn.tranX) THEN One ELSE Zero])

\* The stages whose income-shock parameters have been set.
C27_Set == {s \in DOMAIN solns : solns[s].pars.UnempPrb # Absent}

\* C27: pars.UnempPrb, and with it the weak return patience factor, is the
\* probability of the minimum value of the transitory-shock support, for
\* every ordering of the support.
C27_UnempPrbOfMinimum ==
    \A s \in C27_Set :
        /\ solns[s].pars.UnempPrb = C27_MinPrb
        /\ BiltOf(s).fcts.WRPF # Absent =>
              BiltOf(s).fcts.WRPF
                  = QMul(QRoot(C27_MinPrb, CRRA), BiltOf(s).fcts.RPF)

\* What holds: pars.UnempPrb is the probability listed first, which is the
\* probability of the minimum when the minimum is listed first.
C27_UnempPrbOfFirst ==
    \A s \in C27_Set :
        /\ solns[s].pars.UnempPrb = agent.dstn.tranP[1]
        /\ agent.dstn.tranX[1] = SeqMin(agent.dstn.tranX) =>
              solns[s].pars.UnempPrb = C27_MinPrb
        /\ BiltOf(s).fcts.WRPF # Absent =>
              BiltOf(s).fcts.WRPF
                  = QMul(QRoot(agent.dstn.tranP[1], CRRA), BiltOf(s).fcts.RPF)

\* The factor has been computed from a support listed in descending order.
C27_Reached ==
    \E s \in C27_Set :
        /\ agent.dstn.tranX[1] # SeqMin(agent.dstn.tranX)
        /\ BiltOf(s).fcts.WRPF # Absent

\* The stages on which check_GICNrm has recorded its result.
C28_Checked == {s \in DOMAIN solns : "GICNrm" \in BiltOf(s).recorded}

\* C28: check_GICNrm records GICNrm = True exactly when GPFNrm < 1, as the
\* stored test 'GPFNrm < 1' and the messages state; a stage with GPFNrm = 1
\* fails the condition.
C28_GICNrmStrict ==
    \A s \in C28_Checked :
        ("GICNrm" \in BiltOf(s).passed) <=> QLt(BiltOf(s).fcts.GPFNrm, One)

\* What holds: the recorded result is GPFNrm <= 1, and differs from the
\* strict test only at GPFNrm = 1.
C28_GICNrmWeak ==
    \A s \in C28_Checked :
        /\ ("GICNrm" \in BiltOf(s).passed)
              <=> (QLt(BiltOf(s).fcts.GPFNrm, One) \/ BiltOf(s).fcts.GPFNrm = One)
        /\ BiltOf(s).fcts.GPFNrm # One =>
              (("GICNrm" \in BiltOf(s).passed) <=> QLt(BiltOf(s).fcts.GPFNrm, One))

\* check_GICNrm has run on a stage with GPFNrm = 1.
C28_Reached ==
    \E s \in C28_Checked : BiltOf(s).fcts.GPFNrm = One

\* The records that have both soln.stge_kind and soln.bilt.stge_kind.
C29_Both ==
    {s \in DOMAIN solns : solns[s].stge_kind # 0 /\ BiltOf(s).stge_kind # 0}

\* C29: every record with both a record-level and a built status carries
\* the same iter_status in both, so the terminal_pseudo tag written by
\* terminal setup is the one the constructor and solve read.
C29_StatusAgrees ==
    \A s \in C29_Both : StatusOfDict(solns[s].stge_kind) = Status(s)

\* What holds: the two agree on every record a solver has made, and on the
\* terminal record unless terminal setup tagged a record whose built status
\* was something else.
C29_StatusAgreesOffTerminal ==
    \A s \in C29_Both :
        s # Terminal => StatusOfDict(solns[s].stge_kind) = Status(s)

\* Terminal setup has run on a record whose built status is not
\* terminal_pseudo, and a solver has been constructed on that record.
C29_Reached ==
    /\ Terminal \in C29_Both
    /\ StatusOfDict(solns[Terminal].stge_kind) = "terminal_pseudo"
    /\ Status(Terminal) = "not initialized"
    /\ slv.futr = Terminal /\ slv.pc = "done"

\* solve has ended on a perfect-foresight solver that went through
\* make_cFunc_PF with a successor function of two breakpoints, the
\* extrapolation endpoints: no interior kink.
C30_NoInteriorKink ==
    /\ agent.solver = "PF"
    /\ slv.pc = "done" /\ slv.out \in {"returned", "raised"}
    /\ slv.seen.bstat # "terminal_pseudo"
    /\ PFReadable(solns[slv.crnt].folw)
    /\ Len(solns[slv.crnt].folw.cFunc_tp1.x) = 2

\* C30: make_cFunc_PF completes and returns a consumption function when the
\* successor's function has no interior kink; the result has the current
\* stage's cusp as its only kink.
C30_CuspOnly ==
    C30_NoInteriorKink =>
        /\ slv.out = "returned"
        /\ BiltOf(slv.crnt).cFunc.kind = "lin"
        /\ Len(BiltOf(slv.crnt).cFunc.x) = 3

\* What holds: without an interior kink the solve raises and the stage is
\* left without a consumption function of its own making.
C30_RaisesWithoutKink ==
    C30_NoInteriorKink =>
        /\ slv.out = "raised"
        /\ solns[slv.crnt].cFunc = NoFunc

\* Such a solve has ended, on a successor whose kink list step (a) leaves
\* empty.
C30_Reached ==
    /\ C30_NoInteriorKink
    /\ Interior(solns[slv.crnt].folw.cFunc_tp1.x) = <<>>

====
